---- MODULE Spec2Model ----
(***************************************************************************)
(* CsprojReader (src/src/util.ts, lines 338-524): the queries of a reader  *)
(* bound to one project file.  A text value is a sequence of one-character *)
(* strings; a parsed element is a function from its child / attribute      *)
(* names to their values, as xml2js (explicitArray) builds it: every child *)
(* name maps to the non-empty array of the children of that name, "$" maps *)
(* to the attributes, and an element with neither is the empty string,     *)
(* which has no property at all and is written EmptyTag here.              *)
(***************************************************************************)
EXTENDS Integers, Sequences, FiniteSets, TLC

VARIABLES
    platform,   \* "posix" or "win32": decides path.sep and path.resolve
    filePath,   \* the path bound to the reader at construction
    files,      \* storage: path -> content
    pc,         \* per query: "idle", "readRoot", "readImport", "settled"
    op,         \* per query: the public query being run
    reads,      \* per query: the paths handed to FileHandler.read, in order
    logs,       \* per query: number of Logger.error calls
    importPath, \* per query: the resolved import path awaiting its read
    result,     \* per query: what the promise settled with
    csprojReader, \* the reader its user holds: constructed, looked up, or none
    served,     \* the last call a caller took the result of, where noted
    exec        \* a run of Extension.startExecutor

vars == <<platform, filePath, files, pc, op, reads, logs, importPath, result,
          csprojReader, served, exec>>

-----------------------------------------------------------------------------
(* Bounds of the model *)

MaxGroups == 2      \* PropertyGroup children per document
MaxItemGroups == 3  \* ItemGroup children per document
MaxRun == 4         \* characters after the moniker prefix in generated monikers
MaxDepth == 3       \* directories below the filesystem root on the way to a new file

-----------------------------------------------------------------------------
(* Generic helpers *)

SeqsUpTo(S, n) == UNION {[1..k -> S] : k \in 0..n}

NonEmptySeqsUpTo(S, n) == UNION {[1..k -> S] : k \in 1..n}

RECURSIVE Flatten(_)
Flatten(ss) == IF ss = <<>> THEN <<>> ELSE Head(ss) \o Flatten(Tail(ss))

Has(obj, key) == key \in DOMAIN obj

EmptyTag == <<>>

\* null, the value xml2js resolves with for blank input: like an object
\* without properties under the optional chaining the reader applies to it.
Null == <<>>

-----------------------------------------------------------------------------
(* Text literals *)

T_empty == <<>>
T_enable == <<"e", "n", "a", "b", "l", "e">>
T_Enable == <<"E", "n", "a", "b", "l", "e">>
T_true == <<"t", "r", "u", "e">>
T_A == <<"A">>
T_B == <<"B">>
T_C == <<"C">>
T_net == <<"n", "e", "t">>
T_NET == <<"N", "E", "T">>
T_netcoreapp == <<"n", "e", "t", "c", "o", "r", "e", "a", "p", "p">>
T_net50 == T_net \o <<"5", ".", "0">>
T_net60 == T_net \o <<"6", ".", "0">>

\* validTargetFramework of the test suite
ValidTargetFramework ==
    { T_netcoreapp \o v : v \in { <<"1", ".", "0">>, <<"1", ".", "1">>,
                                  <<"2", ".", "0">>, <<"2", ".", "1">>,
                                  <<"2", ".", "2">>, <<"3", ".", "0">>,
                                  <<"3", ".", "1">> } }
    \cup {T_net50, T_net60}

-----------------------------------------------------------------------------
(* Documents: what storage holds and what the parser makes of it *)

PropertyNames == {"RootNamespace", "TargetFramework", "ImplicitUsings"}

\* The PropertyGroup elements documents are built from.  A property maps to
\* the array of the texts of its elements; an empty element has the text ''.
PropertyGroupValues ==
    { EmptyTag,
      [RootNamespace |-> <<T_A>>],
      [RootNamespace |-> <<T_B, T_A>>, TargetFramework |-> <<T_net50>>],
      [TargetFramework |-> <<T_net60>>, ImplicitUsings |-> <<T_enable>>],
      [TargetFramework |-> <<T_empty>>, ImplicitUsings |-> <<T_Enable>>],
      [RootNamespace |-> <<T_empty>>, ImplicitUsings |-> <<T_true, T_enable>>] }

PropertyGroupSeqs == NonEmptySeqsUpTo(PropertyGroupValues, MaxGroups)

\* The ItemGroup elements documents are built from.  A Using element is
\* EmptyTag without attributes, else "$" maps to its attributes.
ItemGroupValues ==
    { EmptyTag,
      [Using |-> << "$" :> [Include |-> T_empty] >>],
      [Using |-> << "$" :> [Remove |-> T_empty] >>],
      [Using |-> << "$" :> [Include |-> T_A], EmptyTag, "$" :> [Remove |-> T_B],
                    "$" :> [Include |-> T_B, Remove |-> T_A], "$" :> [Alias |-> T_A] >>],
      [PackageReference |-> << "$" :> [Include |-> T_A] >>] }

ItemGroupSeqs == NonEmptySeqsUpTo(ItemGroupValues, MaxItemGroups)

\* Project attributes of Import elements, as tokens: a separator character
\* or a run of other characters.
ImportBack == <<"..", "\\", "T">>               \* ..\T
ImportFwd == <<"..", "/", "T">>                 \* ../T
ImportDeep == <<".", "\\", "..", "\\", "T">>    \* .\..\T

ImportProjects == {ImportBack, ImportFwd, ImportDeep}

ImportElement(project) == "$" :> [Project |-> project]

\* Import arrays: one Import with a Project attribute, or one without.
ImportValues ==
    { <<ImportElement(p)>> : p \in ImportProjects }
    \cup { <<EmptyTag>>, << "$" :> [Condition |-> T_true] >> }

\* A Project element; an absent child array is passed as <<>>.
ProjectNode(propertyGroup, import, itemGroup) ==
    ("$" :> [Sdk |-> T_A])
    @@ (IF propertyGroup = <<>> THEN <<>> ELSE [PropertyGroup |-> propertyGroup])
    @@ (IF import = <<>> THEN <<>> ELSE [Import |-> import])
    @@ (IF itemGroup = <<>> THEN <<>> ELSE [ItemGroup |-> itemGroup])

Xml(root, node) == [k |-> "xml", tree |-> (root :> node)]

Text(t) == [k |-> "text", text |-> t]

Missing == [k |-> "missing"]

\* a file that exists and that the storage fails to read
Unreadable == [k |-> "unreadable"]

\* invalidCsProjFixtures of the test suite: blank, and not well-formed
InvalidCsProjFixtures == {"", "lorem ipsum", "<", "<>", "/>", "<lorem>", "</lorem>"}

Document(propertyGroup, import, itemGroup) ==
    Xml("Project", ProjectNode(propertyGroup, import, itemGroup))

\* Storage contents that hold no Project children at all
BareContents ==
    {Missing} \cup {Text(t) : t \in InvalidCsProjFixtures}
    \cup {Xml("lorem", EmptyTag), Xml("Project", EmptyTag), Document(<<>>, <<>>, <<>>)}

\* Documents whose only children are Imports
ImportOnlyContents == {Document(<<>>, i, <<>>) : i \in ImportValues}

\* Documents with PropertyGroups, with and without an Import beside them
PropertyContents ==
    {Document(g, i, <<>>) : g \in PropertyGroupSeqs, i \in {<<>>, <<ImportElement(ImportBack)>>}}

\* Documents with ItemGroups
UsingContents ==
    {Document(<<[TargetFramework |-> <<T_net60>>]>>, <<>>, g) : g \in ItemGroupSeqs}

\* Documents whose groups have no children, or Using elements without
\* attributes
HollowContents ==
    { Document(<<>>, <<>>, <<EmptyTag>>),
      Document(<<EmptyTag, EmptyTag>>, <<>>, <<EmptyTag, [Using |-> <<EmptyTag>>]>>),
      Document(<<>>, <<EmptyTag>>, <<[Using |-> <<EmptyTag, EmptyTag>>]>>) }

Contents ==
    BareContents \cup ImportOnlyContents \cup PropertyContents \cup UsingContents
    \cup HollowContents

\* A handful of contents of each shape
FewContents ==
    { Missing, Text("<lorem>"), Text(""), Xml("Project", EmptyTag),
      Document(<<>>, <<ImportElement(ImportBack)>>, <<>>),
      Document(<<[RootNamespace |-> <<T_A>>, TargetFramework |-> <<T_net60>>,
                  ImplicitUsings |-> <<T_enable>>]>>,
               <<ImportElement(ImportBack)>>,
               <<[Using |-> << "$" :> [Include |-> T_A, Remove |-> T_B] >>]>>) }

-----------------------------------------------------------------------------
(* Paths: a path is a sequence of segments, a segment a sequence of tokens *)

Platforms == {"posix", "win32"}

\* path.sep
sep == IF platform = "win32" THEN "\\" ELSE "/"

\* What path.resolve takes for a separator: both slashes on win32
IsSeparator(token) == IF platform = "win32" THEN token \in {"/", "\\"} ELSE token = "/"

\* String.prototype.replace with a string pattern: the first occurrence only
StringReplace(s, pattern, replacement) ==
    IF \E i \in 1..Len(s) : s[i] = pattern
    THEN LET first == CHOOSE i \in 1..Len(s) :
                          s[i] = pattern /\ \A j \in 1..(i - 1) : s[j] # pattern
         IN [s EXCEPT ![first] = replacement]
    ELSE s

RECURSIVE SplitSegments(_, _)
\* the segments of a token sequence, `current` being the segment under way
SplitSegments(tokens, current) ==
    IF tokens = <<>> THEN <<current>>
    ELSE IF IsSeparator(Head(tokens))
         THEN <<current>> \o SplitSegments(Tail(tokens), <<>>)
         ELSE SplitSegments(Tail(tokens), Append(current, Head(tokens)))

RECURSIVE NormalizeOnto(_, _)
\* path normalisation: '' and '.' are dropped, '..' removes the last segment
NormalizeOnto(base, segments) ==
    IF segments = <<>> THEN base
    ELSE LET s == Head(segments) IN
         IF s = <<>> \/ s = <<".">> THEN NormalizeOnto(base, Tail(segments))
         ELSE IF s = <<"..">>
              THEN NormalizeOnto(IF base = <<>> THEN base ELSE SubSeq(base, 1, Len(base) - 1),
                                 Tail(segments))
              ELSE NormalizeOnto(Append(base, s), Tail(segments))

\* path.dirname of an absolute path
dirname(path) == IF path = <<>> THEN path ELSE SubSeq(path, 1, Len(path) - 1)

\* path.resolve(dir, relative): an absolute second argument replaces dir
resolve(dir, tokens) ==
    IF tokens # <<>> /\ IsSeparator(Head(tokens))
    THEN NormalizeOnto(<<>>, SplitSegments(tokens, <<>>))
    ELSE NormalizeOnto(dir, SplitSegments(tokens, <<>>))

BoundPath == << <<"w">>, <<"p">>, <<"a.csproj">> >>

TargetPath == << <<"w">>, <<"T">> >>

-----------------------------------------------------------------------------
(* Outcomes of awaited calls, and query results *)

Ok(v) == [ok |-> TRUE, value |-> v]

Fail == [ok |-> FALSE]

Undefined == [kind |-> "undefined"]

Str(t) == [kind |-> "string", val |-> t]

Bool(b) == [kind |-> "boolean", val |-> b]

List(l) == [kind |-> "list", val |-> l]

Rejected == [kind |-> "rejected"]

Pending == [kind |-> "pending"]

\* no argument given for an optional path parameter
NoPath == <<>>

-----------------------------------------------------------------------------
(* Collaborators *)

\* FileHandler.read: rejects when the path does not exist or cannot be read
FileHandler_read(path) ==
    IF path \in DOMAIN files /\ files[path].k \notin {"missing", "unreadable"}
    THEN Ok(files[path])
    ELSE Fail

\* xml2js Parser.parseStringPromise: null for blank input, rejects what is
\* not well-formed, else the tree { rootName: element }
parseStringPromise(content) ==
    IF content.k = "text"
    THEN IF content.text = "" THEN Ok(Null) ELSE Fail
    ELSE Ok(content.tree)

\* a file exists at `path`
Exists(path) == path \in DOMAIN files /\ files[path].k # "missing"

\* file names with the extension csproj
ProjectNames == {<<"a.csproj">>, <<"b.csproj">>}

\* glob match of a file name: '*.csproj', or '*' for any name
GlobMatch(pattern, name) ==
    CASE pattern = "*.csproj" -> name \in ProjectNames
      [] pattern = "*" -> TRUE

RECURSIVE findUpGlob(_, _)
\* find-up-glob: the matches in the nearest directory, from cwd upwards to
\* the filesystem root, that holds any
findUpGlob(pattern, cwd) ==
    LET matches == {p \in DOMAIN files :
                       /\ Exists(p) /\ p # <<>>
                       /\ dirname(p) = cwd
                       /\ GlobMatch(pattern, p[Len(p)])}
    IN IF matches # {} THEN matches
       ELSE IF cwd = <<>> THEN {}
       ELSE findUpGlob(pattern, dirname(cwd))

\* ProjectReader.createProjectFromPath: the paths the new reader may be
\* bound to, none when the search finds nothing
createProjectFromPath(findFromPath, pattern) == findUpGlob(pattern, dirname(findFromPath))

-----------------------------------------------------------------------------
(* Version moniker: /(?<=net)\d+(\.\d+)*/i and Number() *)

DigitChars == {"0", "1", "2", "3", "4", "5", "6", "7", "8", "9"}

DigitValue(ch) ==
    CASE ch = "0" -> 0 [] ch = "1" -> 1 [] ch = "2" -> 2 [] ch = "3" -> 3 [] ch = "4" -> 4
      [] ch = "5" -> 5 [] ch = "6" -> 6 [] ch = "7" -> 7 [] ch = "8" -> 8 [] ch = "9" -> 9

\* case folding of the i flag, for the letters of the pattern
FoldCase(ch) ==
    CASE ch = "N" -> "n" [] ch = "E" -> "e" [] ch = "T" -> "t" [] OTHER -> ch

\* (?<=net) at position i: the three characters before i spell net
LookbehindNet(s, i) ==
    /\ i > 3
    /\ FoldCase(s[i - 3]) = "n"
    /\ FoldCase(s[i - 2]) = "e"
    /\ FoldCase(s[i - 1]) = "t"

RECURSIVE DigitsEnd(_, _)
\* \d+ from a digit at i: the index of the last digit of the run
DigitsEnd(s, i) ==
    IF i < Len(s) /\ s[i + 1] \in DigitChars THEN DigitsEnd(s, i + 1) ELSE i

RECURSIVE GroupsEnd(_, _)
\* (\.\d+)* after index j, greedy: the index of the last character matched
GroupsEnd(s, j) ==
    IF j + 1 < Len(s) /\ s[j + 1] = "." /\ s[j + 2] \in DigitChars
    THEN GroupsEnd(s, DigitsEnd(s, j + 2))
    ELSE j

\* String.prototype.match without the g flag: the leftmost match, as
\* <<text>>, or <<>> for null
match(s) ==
    LET starts == {i \in 1..Len(s) : LookbehindNet(s, i) /\ s[i] \in DigitChars} IN
    IF starts = {} THEN <<>>
    ELSE LET i == CHOOSE x \in starts : \A y \in starts : x <= y
         IN <<SubSeq(s, i, GroupsEnd(s, DigitsEnd(s, i)))>>

RECURSIVE DecimalValue(_, _)
\* the value of a run of digits, most significant first
DecimalValue(digits, acc) ==
    IF digits = <<>> THEN acc
    ELSE DecimalValue(Tail(digits), 10 * acc + DigitValue(Head(digits)))

Dots(t) == {i \in 1..Len(t) : t[i] = "."}

\* Number(text) for a text of the shape \d+(\.\d+)*: NaN with two points or
\* more, else the integer part and the fraction digits
Number(t) ==
    IF Cardinality(Dots(t)) > 1 THEN [nan |-> TRUE]
    ELSE IF Dots(t) = {}
         THEN [nan |-> FALSE, int |-> DecimalValue(t, 0), frac |-> <<>>]
         ELSE LET d == CHOOSE i \in Dots(t) : TRUE
              IN [nan |-> FALSE, int |-> DecimalValue(SubSeq(t, 1, d - 1), 0),
                  frac |-> SubSeq(t, d + 1, Len(t))]

\* Number.isNaN does not convert its argument: false for every string
Number_isNaN(t) == FALSE

\* the comparison taken strictly
Greater6(n) == ~n.nan /\ n.int > 6

\* n >= 6 for a Number() result: false for NaN; the fraction is never negative
GreaterOrEqual6(n) == ~n.nan /\ n.int >= 6

\* Number.parseFloat(text) for a text of the shape \d+(\.\d+)*: the value of
\* the longest leading decimal literal, which ends before a second point
parseFloat(t) ==
    IF Cardinality(Dots(t)) > 1
    THEN LET first == CHOOSE i \in Dots(t) : \A j \in Dots(t) : i <= j
             second == CHOOSE i \in Dots(t) \ {first} : \A j \in Dots(t) \ {first} : i <= j
         IN Number(SubSeq(t, 1, second - 1))
    ELSE Number(t)

\* the value the tests expect of the version predicate for a TargetFramework
framework(targetFramework) ==
    LET versionMatch == match(targetFramework) IN
    IF Len(versionMatch) = 0 \/ Number_isNaN(versionMatch[1])
    THEN FALSE
    ELSE GreaterOrEqual6(parseFloat(versionMatch[1]))

-----------------------------------------------------------------------------
(* CsprojReader *)

ScalarQueries ==
    {"getRootNamespace", "getTargetFramework",
     "isTargetFrameworkHigherThanOrEqualToDotNet6", "useImplicitUsings"}

UsingQueries == {"getUsingsInclude", "getUsingsRemove"}

Queries == ScalarQueries \cup UsingQueries

\* filePath ?? this.filePath
PathOrBound(path) == IF path = NoPath THEN filePath ELSE path

\* getContent(filePath?)
getContent(path) == FileHandler_read(PathOrBound(path))

\* getXmlContent answering from the storage of the call before, as a reader
\* keeping what it read would
getXmlContentCached(path) ==
    LET store == IF served.t = "call" THEN served.files ELSE files
        p == PathOrBound(path)
    IN IF p \in DOMAIN store /\ store[p].k # "missing"
       THEN parseStringPromise(store[p])
       ELSE Fail

\* getXmlContent(filePath?): the read, then the parse
getXmlContent(path) ==
    LET content == getContent(path) IN
    IF content.ok THEN parseStringPromise(content.value) ELSE Fail

\* xmlContent?.Project?.PropertyGroup, <<>> standing for undefined
ProjectPropertyGroup(xmlContent) ==
    IF Has(xmlContent, "Project") /\ Has(xmlContent.Project, "PropertyGroup")
    THEN xmlContent.Project.PropertyGroup
    ELSE <<>>

\* the Import's Project attribute with the separators replaced, resolved
\* against the directory of the bound file
projectPath(project) ==
    resolve(dirname(filePath), StringReplace(StringReplace(project, "\\", sep), "/", sep))

\* getPropertyGroups falling back to the import whenever one is there, even
\* beside PropertyGroups
getPropertyGroupsImportFirst(xmlContent) ==
    IF Has(xmlContent, "Project") /\ Has(xmlContent.Project, "Import")
       /\ Has(xmlContent.Project.Import[1], "$")
       /\ Has(xmlContent.Project.Import[1]["$"], "Project")
    THEN [t |-> "import", path |-> projectPath(xmlContent.Project.Import[1]["$"].Project)]
    ELSE [t |-> "return", groups |-> ProjectPropertyGroup(xmlContent)]

\* getPropertyGroups up to its second await: the groups of the root
\* document, or the import still to be read, or a TypeError thrown
getPropertyGroups(xmlContent) ==
    IF ProjectPropertyGroup(xmlContent) # <<>>
    THEN [t |-> "return", groups |-> ProjectPropertyGroup(xmlContent)]
    ELSE IF ~(Has(xmlContent, "Project") /\ Has(xmlContent.Project, "Import"))
         THEN [t |-> "return", groups |-> <<>>]
         ELSE LET importProject == xmlContent.Project.Import IN
              IF Len(importProject) = 0 THEN [t |-> "return", groups |-> <<>>]
              ELSE IF ~(Has(importProject[1], "$") /\ Has(importProject[1]["$"], "Project"))
                   THEN [t |-> "throw"]
                   ELSE [t |-> "import", path |-> projectPath(importProject[1]["$"].Project)]

\* find taking the last group with the property instead of the first
findLast(propertyGroups, name) ==
    LET defining == {i \in 1..Len(propertyGroups) : Has(propertyGroups[i], name)} IN
    IF defining = {} THEN 0 ELSE CHOOSE i \in defining : \A j \in defining : i >= j

\* propertyGroups?.find(p => p[name]): the index of the first group with
\* the property, 0 for undefined
find(propertyGroups, name) ==
    LET defining == {i \in 1..Len(propertyGroups) : Has(propertyGroups[i], name)} IN
    IF defining = {} THEN 0 ELSE CHOOSE i \in defining : \A j \in defining : i <= j

\* the try block of getRootNamespace after its await
getRootNamespace(propertyGroups) ==
    LET i == find(propertyGroups, "RootNamespace") IN
    IF i = 0 THEN Undefined ELSE Str(propertyGroups[i].RootNamespace[1])

\* the try block of getTargetFramework after its await
getTargetFramework(propertyGroups) ==
    LET i == find(propertyGroups, "TargetFramework") IN
    IF i = 0 THEN Undefined ELSE Str(propertyGroups[i].TargetFramework[1])

\* isTargetFrameworkHigherThanOrEqualToDotNet6 after its await
isTargetFrameworkHigherThanOrEqualToDotNet6(targetFramework) ==
    IF targetFramework.kind = "undefined" \/ targetFramework.val = T_empty
    THEN Undefined
    ELSE LET versionMatch == match(targetFramework.val) IN
         IF Len(versionMatch) = 0 \/ Number_isNaN(versionMatch[1])
         THEN Bool(FALSE)
         ELSE Bool(GreaterOrEqual6(Number(versionMatch[1])))

\* useImplicitUsings comparing without regard to case
useImplicitUsingsAnyCase(propertyGroups) ==
    LET i == find(propertyGroups, "ImplicitUsings") IN
    IF i = 0 THEN Bool(FALSE)
    ELSE Bool(propertyGroups[i].ImplicitUsings[1] \in {T_enable, T_Enable})

\* useImplicitUsings after its try block
useImplicitUsings(propertyGroups) ==
    LET i == find(propertyGroups, "ImplicitUsings") IN
    IF i = 0 THEN Bool(FALSE) ELSE Bool(propertyGroups[i].ImplicitUsings[1] = T_enable)

\* getUsings after its await
getUsings(xmlContent) ==
    IF ~(Has(xmlContent, "Project") /\ Has(xmlContent.Project, "ItemGroup"))
    THEN <<>>
    ELSE LET itemGroups == SelectSeq(xmlContent.Project.ItemGroup,
                                     LAMBDA g : Has(g, "Using"))
         IN Flatten([i \in 1..Len(itemGroups) |-> itemGroups[i].Using])

\* the filter testing the attribute for truthiness: '' is dropped
AttributesTruthy(usings, name) ==
    LET kept == SelectSeq(usings, LAMBDA u : Has(u, "$") /\ Has(u["$"], name)
                                             /\ u["$"][name] # T_empty)
    IN [i \in 1..Len(kept) |-> kept[i]["$"][name]]

\* usings.filter(u => u.$ !== undefined && u.$[name] !== undefined).map(u => u.$[name])
Attributes(usings, name) ==
    LET kept == SelectSeq(usings, LAMBDA u : Has(u, "$") /\ Has(u["$"], name))
    IN [i \in 1..Len(kept) |-> kept[i]["$"][name]]

\* getUsingsInclude after its await
getUsingsInclude(usings) == List(Attributes(usings, "Include"))

\* getUsingsRemove after its await
getUsingsRemove(usings) == List(Attributes(usings, "Remove"))

\* what a scalar query resolves with once the property groups are there
Resolved(query, propertyGroups) ==
    CASE query = "getRootNamespace" -> getRootNamespace(propertyGroups)
      [] query = "getTargetFramework" -> getTargetFramework(propertyGroups)
      [] query = "isTargetFrameworkHigherThanOrEqualToDotNet6" ->
            isTargetFrameworkHigherThanOrEqualToDotNet6(getTargetFramework(propertyGroups))
      [] query = "useImplicitUsings" -> useImplicitUsings(propertyGroups)

\* a catch block that throws the error on
CaughtRethrow(query) == Rejected

\* what a scalar query resolves with from its catch block
Caught(query) ==
    CASE query = "getRootNamespace" -> Undefined
      [] query = "getTargetFramework" -> Undefined
      [] query = "isTargetFrameworkHigherThanOrEqualToDotNet6" ->
            isTargetFrameworkHigherThanOrEqualToDotNet6(Undefined)
      [] query = "useImplicitUsings" -> Bool(FALSE)

\* what a using query settles with: no catch block, a failure rejects
UsingsSettled(query, xml) ==
    IF ~xml.ok THEN Rejected
    ELSE IF query = "getUsingsInclude" THEN getUsingsInclude(getUsings(xml.value))
         ELSE getUsingsRemove(getUsings(xml.value))

\* ProjectReader.getFilePath
getFilePath == filePath

\* createFromPath searching for a file of any name
createFromPathAnyFile(findFromPath) == createProjectFromPath(findFromPath, "*")

\* CsprojReader.createFromPath: the paths of the reader it may return, none
\* when it returns undefined
createFromPath(findFromPath) == createProjectFromPath(findFromPath, "*.csproj")

\* the values of csprojReader
NotCreated == [t |-> "none", from |-> NoPath]
Constructed == [t |-> "reader", from |-> NoPath]
FoundFrom(findFromPath) == [t |-> "reader", from |-> findFromPath]
NotFoundFrom(findFromPath) == [t |-> "undefined", from |-> findFromPath]

\* no call noted
NoCall == [t |-> "none"]

\* no run of startExecutor
NoRun == [pc |-> "off"]

-----------------------------------------------------------------------------
(* The queries as processes: one step per awaited storage read *)

Callers == {"q1", "q2"}

Idle == \A c \in Callers : pc[c] = "idle"

\* a caller invokes a public query
Start(c, query) ==
    /\ pc[c] = "idle"
    /\ pc' = [pc EXCEPT ![c] = "readRoot"]
    /\ op' = [op EXCEPT ![c] = query]
    /\ UNCHANGED <<platform, filePath, files, reads, logs, importPath, result>>

\* Settle with the pending import path kept in one place for all queries
SettleSharedPath(c, outcome, logged) ==
    /\ pc' = [pc EXCEPT ![c] = "settled"]
    /\ result' = [result EXCEPT ![c] = outcome]
    /\ logs' = [logs EXCEPT ![c] = @ + logged]
    /\ importPath' = [x \in Callers |-> NoPath]

\* the query settles: its promise resolves or rejects
Settle(c, outcome, logged) ==
    /\ pc' = [pc EXCEPT ![c] = "settled"]
    /\ result' = [result EXCEPT ![c] = outcome]
    /\ logs' = [logs EXCEPT ![c] = @ + logged]
    /\ importPath' = [importPath EXCEPT ![c] = NoPath]

\* ReadRoot with the usings queries taking the import fallback as well
ReadRootUsingsImport(c) ==
    /\ pc[c] = "readRoot"
    /\ reads' = [reads EXCEPT ![c] = Append(@, PathOrBound(NoPath))]
    /\ LET xml == getXmlContent(NoPath) IN
       IF op[c] \in UsingQueries /\ (~xml.ok \/ getPropertyGroups(xml.value).t # "import")
       THEN Settle(c, UsingsSettled(op[c], xml), 0)
       ELSE IF ~xml.ok THEN Settle(c, Caught(op[c]), 1)
       ELSE LET groups == getPropertyGroups(xml.value) IN
            CASE groups.t = "return" -> Settle(c, Resolved(op[c], groups.groups), 0)
              [] groups.t = "throw" -> Settle(c, Caught(op[c]), 1)
              [] groups.t = "import" ->
                    /\ pc' = [pc EXCEPT ![c] = "readImport"]
                    /\ importPath' = [importPath EXCEPT ![c] = groups.path]
                    /\ UNCHANGED <<logs, result>>
    /\ UNCHANGED <<platform, filePath, files, op>>

\* await this.getXmlContent() of the bound file, and what follows it up to
\* the next await or the end of the query
ReadRoot(c) ==
    /\ pc[c] = "readRoot"
    /\ reads' = [reads EXCEPT ![c] = Append(@, PathOrBound(NoPath))]
    /\ LET xml == getXmlContent(NoPath) IN
       IF op[c] \in UsingQueries THEN Settle(c, UsingsSettled(op[c], xml), 0)
       ELSE IF ~xml.ok THEN Settle(c, Caught(op[c]), 1)
       ELSE LET groups == getPropertyGroups(xml.value) IN
            CASE groups.t = "return" -> Settle(c, Resolved(op[c], groups.groups), 0)
              [] groups.t = "throw" -> Settle(c, Caught(op[c]), 1)
              [] groups.t = "import" ->
                    /\ pc' = [pc EXCEPT ![c] = "readImport"]
                    /\ importPath' = [importPath EXCEPT ![c] = groups.path]
                    /\ UNCHANGED <<logs, result>>
    /\ UNCHANGED <<platform, filePath, files, op>>

\* ReadImport following an Import of the imported document in turn
ReadImportFollow(c) ==
    /\ pc[c] = "readImport"
    /\ reads' = [reads EXCEPT ![c] = Append(@, PathOrBound(importPath[c]))]
    /\ LET importXmlContent == getXmlContent(importPath[c]) IN
       IF ~importXmlContent.ok THEN Settle(c, Caught(op[c]), 1)
       ELSE LET groups == getPropertyGroups(importXmlContent.value) IN
            CASE groups.t = "return" -> Settle(c, Resolved(op[c], groups.groups), 0)
              [] groups.t = "throw" -> Settle(c, Caught(op[c]), 1)
              [] groups.t = "import" ->
                    /\ importPath' = [importPath EXCEPT ![c] = groups.path]
                    /\ UNCHANGED <<pc, logs, result>>
    /\ UNCHANGED <<platform, filePath, files, op>>

\* ReadImport binding the reader to the path it read
ReadImportRebinding(c) ==
    /\ pc[c] = "readImport"
    /\ reads' = [reads EXCEPT ![c] = Append(@, PathOrBound(importPath[c]))]
    /\ filePath' = PathOrBound(importPath[c])
    /\ LET importXmlContent == getXmlContent(importPath[c]) IN
       IF ~importXmlContent.ok THEN Settle(c, Caught(op[c]), 1)
       ELSE Settle(c, Resolved(op[c], ProjectPropertyGroup(importXmlContent.value)), 0)
    /\ UNCHANGED <<platform, files, op>>

\* await this.getXmlContent(projectPath), and the rest of the query
ReadImport(c) ==
    /\ pc[c] = "readImport"
    /\ reads' = [reads EXCEPT ![c] = Append(@, PathOrBound(importPath[c]))]
    /\ LET importXmlContent == getXmlContent(importPath[c]) IN
       IF ~importXmlContent.ok THEN Settle(c, Caught(op[c]), 1)
       ELSE Settle(c, Resolved(op[c], ProjectPropertyGroup(importXmlContent.value)), 0)
    /\ UNCHANGED <<platform, filePath, files, op>>

\* the caller takes the settled result; nothing of the call is kept
Return(c) ==
    /\ pc[c] = "settled"
    /\ pc' = [pc EXCEPT ![c] = "idle"]
    /\ op' = [op EXCEPT ![c] = "none"]
    /\ reads' = [reads EXCEPT ![c] = <<>>]
    /\ logs' = [logs EXCEPT ![c] = 0]
    /\ result' = [result EXCEPT ![c] = Pending]
    /\ UNCHANGED <<platform, filePath, files, importPath>>

\* await CsprojReader.createFromPath(findFromPath)
CreateFromPath(findFromPath) ==
    /\ csprojReader = NotCreated
    /\ LET found == createFromPath(findFromPath) IN
       IF found = {}
       THEN csprojReader' = NotFoundFrom(findFromPath) /\ UNCHANGED filePath
       ELSE \E path \in found :
               filePath' = path /\ csprojReader' = FoundFrom(findFromPath)
    /\ UNCHANGED <<platform, files, pc, op, reads, logs, importPath, result>>

InitQueries ==
    /\ pc = [c \in Callers |-> "idle"]
    /\ op = [c \in Callers |-> "none"]
    /\ reads = [c \in Callers |-> <<>>]
    /\ logs = [c \in Callers |-> 0]
    /\ importPath = [c \in Callers |-> NoPath]
    /\ result = [c \in Callers |-> Pending]

\* new CsprojReader(BoundPath), no query made yet
InitCalls ==
    /\ filePath = BoundPath
    /\ csprojReader = Constructed
    /\ served = NoCall
    /\ exec = NoRun
    /\ InitQueries

Storage(root, target) == (BoundPath :> root) @@ (TargetPath :> target)

\* A reader constructed on BoundPath; storage holds any content at the bound
\* path beside a few at the import target, or an import-only document at
\* the bound path beside any content at the import target.
Init ==
    /\ platform \in Platforms
    /\ \/ \E root \in Contents, target \in FewContents : files = Storage(root, target)
       \/ \E root \in ImportOnlyContents, target \in Contents : files = Storage(root, target)
    /\ InitCalls

\* queries awaited one after the other
Next ==
    \/ \E c \in Callers, query \in Queries :
          /\ csprojReader.t = "reader" /\ Idle
          /\ Start(c, query)
          /\ UNCHANGED <<csprojReader, served, exec>>
    \/ \E c \in Callers : ReadRoot(c) /\ UNCHANGED <<csprojReader, served, exec>>
    \/ \E c \in Callers : ReadImport(c) /\ UNCHANGED <<csprojReader, served, exec>>
    \/ \E c \in Callers : Return(c) /\ UNCHANGED <<csprojReader, served, exec>>

Spec == Init /\ [][Next]_vars

-----------------------------------------------------------------------------
(* The version comparison over many monikers *)

MonikerPrefixes == {<<>>, T_net, T_NET, T_netcoreapp, <<"n", "e">>, <<"N", "e", "t", "t">>}

RunChars == {"5", "6", "."}

MonikerSuffixes == {<<>>, <<"-", "w">>, T_net \o <<"7">>}

\* net6.0.1, net48 and net472
LongMonikers ==
    {T_net \o <<"6", ".", "0", ".", "1">>, T_net \o <<"4", "8">>, T_net \o <<"4", "7", "2">>}

Monikers ==
    {p \o r \o x : p \in MonikerPrefixes, r \in SeqsUpTo(RunChars, MaxRun), x \in MonikerSuffixes}
    \cup ValidTargetFramework \cup LongMonikers

FrameworkDocument(moniker) == Document(<<EmptyTag, [TargetFramework |-> <<moniker>>]>>, <<>>, <<>>)

\* A reader on a document whose TargetFramework is any moniker, or on an
\* import-only document whose target carries a moniker of the test suite.
InitMoniker ==
    /\ platform \in Platforms
    /\ \/ \E m \in Monikers : files = Storage(FrameworkDocument(m), Missing)
       \/ \E m \in ValidTargetFramework :
             files = Storage(Document(<<>>, <<ImportElement(ImportBack)>>, <<>>),
                             FrameworkDocument(m))
    /\ InitCalls

SpecMoniker == InitMoniker /\ [][Next]_vars

-----------------------------------------------------------------------------
(* Calls one after the other over storage that changes between them *)

\* the caller takes the settled result; the call is noted for comparison
\* with the next one
ReturnNoting(c) ==
    /\ Return(c)
    /\ served' = [t |-> "call", query |-> op[c], outcome |-> result[c],
                  reads |-> reads[c], files |-> files]

\* something outside the reader changes a file while no query runs
Write(path, content) ==
    /\ Idle
    /\ files[path] # content
    /\ files' = [files EXCEPT ![path] = content]
    /\ UNCHANGED <<platform, filePath, pc, op, reads, logs, importPath, result>>

RewriteRoots ==
    FewContents
    \cup { Document(<<[RootNamespace |-> <<T_B>>, TargetFramework |-> <<T_net50>>]>>, <<>>,
                    <<[Using |-> << "$" :> [Include |-> T_B] >>]>>),
           Document(<<>>, <<ImportElement(ImportDeep)>>, <<>>) }

RewriteTargets ==
    { Missing, Text(""),
      Document(<<[RootNamespace |-> <<T_B>>, ImplicitUsings |-> <<T_enable>>]>>, <<>>, <<>>) }

InitRewrite ==
    /\ platform \in Platforms
    /\ \E root \in RewriteRoots, target \in RewriteTargets : files = Storage(root, target)
    /\ InitCalls

NextRewrite ==
    \/ \E c \in Callers, query \in Queries :
          /\ csprojReader.t = "reader" /\ Idle
          /\ Start(c, query)
          /\ UNCHANGED <<csprojReader, served, exec>>
    \/ \E c \in Callers : ReadRoot(c) /\ UNCHANGED <<csprojReader, served, exec>>
    \/ \E c \in Callers : ReadImport(c) /\ UNCHANGED <<csprojReader, served, exec>>
    \/ \E c \in Callers : ReturnNoting(c) /\ UNCHANGED <<csprojReader, exec>>
    \/ \E content \in RewriteRoots :
          Write(BoundPath, content) /\ UNCHANGED <<csprojReader, served, exec>>
    \/ \E content \in RewriteTargets :
          Write(TargetPath, content) /\ UNCHANGED <<csprojReader, served, exec>>

SpecRewrite == InitRewrite /\ [][NextRewrite]_vars

-----------------------------------------------------------------------------
(* Queries started without awaiting one another *)

ConcurrentRoots == RewriteRoots \cup ImportOnlyContents

InitConcurrent ==
    /\ platform \in Platforms
    /\ \E root \in ConcurrentRoots, target \in FewContents : files = Storage(root, target)
    /\ InitCalls

\* a query may start while another is suspended at a read
NextConcurrent ==
    \/ \E c \in Callers, query \in Queries :
          /\ csprojReader.t = "reader"
          /\ Start(c, query)
          /\ UNCHANGED <<csprojReader, served, exec>>
    \/ \E c \in Callers : ReadRoot(c) /\ UNCHANGED <<csprojReader, served, exec>>
    \/ \E c \in Callers : ReadImport(c) /\ UNCHANGED <<csprojReader, served, exec>>
    \/ \E c \in Callers : Return(c) /\ UNCHANGED <<csprojReader, served, exec>>

SpecConcurrent == InitConcurrent /\ [][NextConcurrent]_vars

-----------------------------------------------------------------------------
(* Looking the project file up from the path of a new file *)

DirNames == <<"w", "p", "s", "t", "u">>

\* the directory `depth` levels below the filesystem root
Directory(depth) == [i \in 1..depth |-> <<DirNames[i]>>]

Depths == 0..MaxDepth

\* the paths createFromPath is given: a new file in one of the directories
StartPaths == {Append(Directory(d), <<"New.cs">>) : d \in Depths}

\* where files may exist: a project file in each directory, a second one
\* beside the first in /w/p, one in a directory off the way, and a file of
\* another kind in each directory
ProjectPlaces ==
    {Append(Directory(d), <<"a.csproj">>) : d \in Depths}
    \cup {Append(Directory(2), <<"b.csproj">>), << <<"w">>, <<"q">>, <<"a.csproj">> >>}

OtherPlaces == {Append(Directory(d), <<"a.sln">>) : d \in {0, MaxDepth}}

\* what a project file in `place` holds
ProjectAt(place) ==
    IF Len(place) = 2 THEN Document(<<>>, <<ImportElement(ImportBack)>>, <<>>)
    ELSE FrameworkDocument(T_net60)

InitFactory ==
    /\ platform \in Platforms
    /\ \E present \in SUBSET (ProjectPlaces \cup OtherPlaces) :
          files = [place \in ProjectPlaces \cup OtherPlaces |->
                      IF place \in present
                      THEN IF place \in ProjectPlaces THEN ProjectAt(place) ELSE Text("lorem ipsum")
                      ELSE Missing]
    /\ filePath = NoPath
    /\ csprojReader = NotCreated
    /\ served = NoCall
    /\ exec = NoRun
    /\ InitQueries

NextFactory ==
    \/ \E findFromPath \in StartPaths :
          CreateFromPath(findFromPath) /\ UNCHANGED <<served, exec>>
    \/ Next

SpecFactory == InitFactory /\ [][NextFactory]_vars

-----------------------------------------------------------------------------
(* Extension.startExecutor: the caller of the reader *)

\* the query of the reader that startExecutor runs as
ExecCaller == "q1"

\* command mappings: the command and the templates it creates files from
Mappings ==
    { [command |-> "createClass", templates |-> <<"t1">>],
      [command |-> "createController", templates |-> <<"t1", "t2">>],
      [command |-> "createFromTemplate", templates |-> <<"t1">>] }

\* inputResult.name as tokens; <<>> stands for a name not typed
InputNames == {<<>>, <<"New">>, <<"New", ".cs">>, <<"New", ".cs", ".cs">>}

RECURSIVE StripEveryCs(_)
\* every trailing '.cs' is cut
StripEveryCs(name) ==
    IF name # <<>> /\ name[Len(name)] = ".cs"
    THEN StripEveryCs(SubSeq(name, 1, Len(name) - 1)) ELSE name

\* newFilename: a trailing '.cs' is cut once
StripCs(name) ==
    IF name # <<>> /\ name[Len(name)] = ".cs" THEN SubSeq(name, 1, Len(name) - 1) ELSE name

\* inputResult.path ?? rootProjectPath
IncomingPaths == {Directory(d) : d \in 1..MaxDepth}

\* what GlobalUsingFinder.find may resolve with
FinderResults == {Fail} \cup {Ok(l) : l \in {<<>>, <<T_A>>, <<T_B, T_A>>, <<T_A, T_C, T_A>>}}

\* the comparison taken for anything but false
IsNotFalse(outcome) == outcome # Bool(FALSE)

\* await ... === true
IsTrue(outcome) == outcome = Bool(TRUE)

RECURSIVE uniqLast(_)
\* the last occurrence of each value, in order
uniqLast(list) ==
    IF list = <<>> THEN <<>>
    ELSE LET tail == uniqLast(SubSeq(list, 2, Len(list)))
         IN IF \E i \in 1..Len(tail) : tail[i] = list[1] THEN tail ELSE <<list[1]>> \o tail

RECURSIVE uniq(_)
\* lodash uniq: the first occurrence of each value, in order
uniq(list) ==
    IF list = <<>> THEN <<>>
    ELSE LET init == uniq(SubSeq(list, 1, Len(list) - 1))
             last == list[Len(list)]
         IN IF \E i \in 1..Len(init) : init[i] = last THEN init ELSE Append(init, last)

\* list.filter(gu => !namespaceRemove.includes(gu))
Without(list, namespaceRemove) ==
    SelectSeq(list, LAMBDA gu : \A i \in 1..Len(namespaceRemove) : namespaceRemove[i] # gu)

\* the stages of startExecutor at which it awaits a query of the reader
QueryStages == {"predicate", "framework", "implicit", "include", "remove"}

QueryOf(stage) ==
    CASE stage = "predicate" -> "isTargetFrameworkHigherThanOrEqualToDotNet6"
      [] stage = "framework" -> "getTargetFramework"
      [] stage = "implicit" -> "useImplicitUsings"
      [] stage = "include" -> "getUsingsInclude"
      [] stage = "remove" -> "getUsingsRemove"

\* startExecutor entered, nothing done yet
Entered ==
    [pc |-> "begin", mapping |-> [command |-> "none", templates |-> <<>>],
     name |-> <<>>, newFilename |-> <<>>, incomingPath |-> <<>>, usingsImplicit |-> TRUE,
     awaiting |-> FALSE, isTargetFrameworkAboveEqualNet6 |-> FALSE,
     useImplicitUsings |-> FALSE, globalUsings |-> <<>>, namespaceInclude |-> <<>>,
     calls |-> <<>>, createdFiles |-> <<>>]

\* the checks before the first await; then await showMultiStepInputFilename
Begin(extension, workspaceFolders, mapping) ==
    /\ exec.pc = "begin"
    /\ exec' = IF extension /\ workspaceFolders
               THEN [exec EXCEPT !.pc = "input", !.mapping = mapping]
               ELSE [exec EXCEPT !.pc = "returned"]
    /\ UNCHANGED <<platform, filePath, files, pc, op, reads, logs, importPath, result,
                   csprojReader, served>>

\* the input is given: the name is checked and cut, and for
\* createFromTemplate the custom templates are looked at
InputGiven(name, incomingPath, customTemplates) ==
    /\ exec.pc = "input"
    /\ exec' = IF name = <<>> THEN [exec EXCEPT !.pc = "returned"]
               ELSE IF exec.mapping.command = "createFromTemplate" /\ customTemplates = 0
               THEN [exec EXCEPT !.pc = "returned"]
               ELSE [exec EXCEPT !.name = name, !.newFilename = StripCs(name),
                                 !.incomingPath = incomingPath,
                                 !.pc = IF exec.mapping.command = "createFromTemplate"
                                        THEN "pick" ELSE "locate"]
    /\ UNCHANGED <<platform, filePath, files, pc, op, reads, logs, importPath, result,
                   csprojReader, served>>

\* await showQuickPick: nothing selected returns
Picked(selectedTemplate) ==
    /\ exec.pc = "pick"
    /\ exec' = [exec EXCEPT !.pc = IF selectedTemplate THEN "locate" ELSE "returned"]
    /\ UNCHANGED <<platform, filePath, files, pc, op, reads, logs, importPath, result,
                   csprojReader, served>>

\* the settings are read; await CsprojReader.createFromPath; without a
\* reader the predicate is not called and its value is undefined
Locate(usingsImplicit) ==
    /\ exec.pc = "locate"
    /\ CreateFromPath(Append(exec.incomingPath, exec.newFilename \o <<".cs">>))
    /\ exec' = IF csprojReader'.t = "reader"
               THEN [exec EXCEPT !.usingsImplicit = usingsImplicit, !.pc = "predicate"]
               ELSE [exec EXCEPT !.usingsImplicit = usingsImplicit,
                                 !.isTargetFrameworkAboveEqualNet6 = IsTrue(Undefined),
                                 !.pc = "create"]
    /\ UNCHANGED served

\* a query of the reader is called
Invoke ==
    /\ exec.pc \in QueryStages /\ ~exec.awaiting
    /\ Start(ExecCaller, QueryOf(exec.pc))
    /\ exec' = [exec EXCEPT !.awaiting = TRUE, !.calls = Append(@, QueryOf(exec.pc))]
    /\ UNCHANGED <<csprojReader, served>>

\* startExecutor after the await of a query that settled with `outcome`
Resumed(e, outcome) ==
    IF outcome = Rejected THEN [e EXCEPT !.awaiting = FALSE, !.pc = "raised"]
    ELSE CASE e.pc = "predicate" ->
                 [e EXCEPT !.awaiting = FALSE,
                           !.isTargetFrameworkAboveEqualNet6 = IsTrue(outcome),
                           !.pc = IF IsTrue(outcome) THEN "framework" ELSE "create"]
           [] e.pc = "framework" -> [e EXCEPT !.awaiting = FALSE, !.pc = "globals"]
           [] e.pc = "implicit" ->
                 [e EXCEPT !.awaiting = FALSE, !.useImplicitUsings = IsTrue(outcome),
                           !.pc = "include"]
           [] e.pc = "include" ->
                 [e EXCEPT !.awaiting = FALSE, !.namespaceInclude = outcome.val,
                           !.pc = "remove"]
           [] e.pc = "remove" ->
                 [e EXCEPT !.awaiting = FALSE,
                           !.globalUsings = Without(uniq(e.globalUsings \o e.namespaceInclude),
                                                    outcome.val),
                           !.pc = "create"]

\* the awaited query has settled
Resume ==
    /\ exec.pc \in QueryStages /\ exec.awaiting
    /\ pc[ExecCaller] = "settled"
    /\ Return(ExecCaller)
    /\ exec' = Resumed(exec, result[ExecCaller])
    /\ UNCHANGED <<csprojReader, served>>

\* await GlobalUsingFinder.find, then useImplicitUsings asked for whatever
\* the setting usings.implicit is
GlobalsAlwaysImplicit(globalUsingsResult) ==
    /\ exec.pc = "globals"
    /\ exec' = [exec EXCEPT !.calls = Append(@, "GlobalUsingFinder.find"),
                            !.globalUsings = IF globalUsingsResult.ok
                                             THEN globalUsingsResult.value ELSE @,
                            !.pc = "implicit"]
    /\ UNCHANGED <<platform, filePath, files, pc, op, reads, logs, importPath, result,
                   csprojReader, served>>

\* await GlobalUsingFinder.find; useImplicitUsings is not asked for when the
\* setting usings.implicit is off
Globals(globalUsingsResult) ==
    /\ exec.pc = "globals"
    /\ exec' = [exec EXCEPT !.calls = Append(@, "GlobalUsingFinder.find"),
                            !.globalUsings = IF globalUsingsResult.ok
                                             THEN globalUsingsResult.value ELSE @,
                            !.pc = IF exec.usingsImplicit THEN "implicit" ELSE "include"]
    /\ UNCHANGED <<platform, filePath, files, pc, op, reads, logs, importPath, result,
                   csprojReader, served>>

\* await Promise.all of the creation of one file per template; created[i]
\* tells whether the creation from template i went well
Create(created) ==
    /\ exec.pc = "create"
    /\ exec' = [exec EXCEPT
                   !.createdFiles =
                       SelectSeq([i \in 1..Len(exec.mapping.templates) |->
                                     [template |-> exec.mapping.templates[i],
                                      ok |-> created[i],
                                      pathWithoutExtension |->
                                          Append(exec.incomingPath, exec.newFilename)]],
                                 LAMBDA f : f.ok),
                   !.pc = IF \A i \in 1..Len(exec.mapping.templates) : created[i]
                          THEN "done" ELSE "failed"]
    /\ UNCHANGED <<platform, filePath, files, pc, op, reads, logs, importPath, result,
                   csprojReader, served>>

\* what the project file may hold when startExecutor runs
ExecutorRoots ==
    { Missing, Unreadable, Text("<lorem>"), Text(""),
      Document(<<[TargetFramework |-> <<T_net60>>, ImplicitUsings |-> <<T_enable>>]>>, <<>>,
               <<[Using |-> << "$" :> [Include |-> T_A], "$" :> [Include |-> T_B],
                               "$" :> [Remove |-> T_B], "$" :> [Include |-> T_A] >>]>>),
      Document(<<[TargetFramework |-> <<T_net60>>, ImplicitUsings |-> <<T_Enable>>]>>, <<>>, <<>>),
      Document(<<[TargetFramework |-> <<T_net50>>, ImplicitUsings |-> <<T_enable>>]>>, <<>>,
               <<[Using |-> << "$" :> [Include |-> T_A] >>]>>),
      Document(<<>>, <<ImportElement(ImportBack)>>, <<>>),
      Document(<<>>, <<ImportElement(ImportDeep)>>, <<>>) }

ExecutorTargets ==
    { Missing,
      Document(<<[TargetFramework |-> <<T_net60>>, ImplicitUsings |-> <<T_enable>>]>>, <<>>,
               <<[Using |-> << "$" :> [Include |-> T_A] >>]>>) }

InitExecutor ==
    /\ platform \in Platforms
    /\ \E root \in ExecutorRoots, target \in ExecutorTargets : files = Storage(root, target)
    /\ filePath = NoPath
    /\ csprojReader = NotCreated
    /\ served = NoCall
    /\ exec = Entered
    /\ InitQueries

NextExecutor ==
    \/ \E extension \in BOOLEAN, workspaceFolders \in BOOLEAN, mapping \in Mappings :
          Begin(extension, workspaceFolders, mapping)
    \/ \E name \in InputNames, incomingPath \in IncomingPaths, customTemplates \in 0..1 :
          InputGiven(name, incomingPath, customTemplates)
    \/ \E selectedTemplate \in BOOLEAN : Picked(selectedTemplate)
    \/ \E usingsImplicit \in BOOLEAN : Locate(usingsImplicit)
    \/ Invoke
    \/ ReadRoot(ExecCaller) /\ UNCHANGED <<csprojReader, served, exec>>
    \/ ReadImport(ExecCaller) /\ UNCHANGED <<csprojReader, served, exec>>
    \/ Resume
    \/ \E globalUsingsResult \in FinderResults : Globals(globalUsingsResult)
    \/ \E created \in [1..2 -> BOOLEAN] : Create(created)

SpecExecutor == InitExecutor /\ [][NextExecutor]_vars

-----------------------------------------------------------------------------
(* What the claims speak of *)

Settled(c, query) == pc[c] = "settled" /\ op[c] = query

\* the content at the bound path
Root == files[filePath]

\* the root document is well-formed XML with a Project element
RootIsProject == Root.k = "xml" /\ Has(Root.tree, "Project")

RootProject == Root.tree.Project

\* the root Project has at least one PropertyGroup child
RootHasGroups == RootIsProject /\ Has(RootProject, "PropertyGroup")

RootHasImport == RootIsProject /\ Has(RootProject, "Import")

\* the PropertyGroup children of a stored document, <<>> when it has none
ContentGroups(content) ==
    IF content.k = "xml" /\ Has(content.tree, "Project")
       /\ Has(content.tree.Project, "PropertyGroup")
    THEN content.tree.Project.PropertyGroup
    ELSE <<>>

\* group i is the first of `groups` to define `name`
FirstDefining(groups, i, name) ==
    /\ i \in 1..Len(groups)
    /\ Has(groups[i], name)
    /\ \A j \in 1..(i - 1) : ~Has(groups[j], name)

NoneDefines(groups, name) == \A i \in 1..Len(groups) : ~Has(groups[i], name)

\* the value first-match resolution over `groups` gives for `name`
FirstMatchIs(groups, name, outcome) ==
    /\ NoneDefines(groups, name) => outcome = Undefined
    /\ \A i \in 1..Len(groups) :
          FirstDefining(groups, i, name) => outcome = Str(groups[i][name][1])

\* C1: over a root document with at least one PropertyGroup, getRootNamespace
\* and getTargetFramework return the value of the property in the first
\* group, in document order, that defines it, and absent if none does.
C1_FirstMatch ==
    \A c \in Callers :
        RootHasGroups =>
            /\ Settled(c, "getRootNamespace") =>
                  FirstMatchIs(RootProject.PropertyGroup, "RootNamespace", result[c])
            /\ Settled(c, "getTargetFramework") =>
                  FirstMatchIs(RootProject.PropertyGroup, "TargetFramework", result[c])

\* a later group wins over an earlier group that defines other properties
C1_Witness ==
    \E c \in Callers :
        /\ Settled(c, "getRootNamespace")
        /\ RootHasGroups
        /\ Len(RootProject.PropertyGroup) = 2
        /\ Has(RootProject.PropertyGroup[1], "TargetFramework")
        /\ FirstDefining(RootProject.PropertyGroup, 2, "RootNamespace")
        /\ result[c] = Str(T_A)

\* the absent / false value of a scalar query
AbsentValue(query) == IF query = "useImplicitUsings" THEN Bool(FALSE) ELSE Undefined

PropertyOf(query) ==
    CASE query = "getRootNamespace" -> "RootNamespace"
      [] query = "useImplicitUsings" -> "ImplicitUsings"
      [] OTHER -> "TargetFramework"

\* C2: when the root document has PropertyGroups and an Import, a scalar
\* query reads storage once, the bound path, never the import target, and
\* returns absent for a property that no root group defines.
C2_NoFallbackBesideGroups ==
    \A c \in Callers :
        (RootHasGroups /\ RootHasImport /\ op[c] \in ScalarQueries) =>
            /\ pc[c] # "readImport"
            /\ \A i \in 1..Len(reads[c]) : reads[c][i] = filePath
            /\ pc[c] = "settled" =>
                  /\ reads[c] = <<filePath>>
                  /\ NoneDefines(RootProject.PropertyGroup, PropertyOf(op[c])) =>
                        result[c] = AbsentValue(op[c])

\* the import target defines the property that the root groups lack
C2_Witness ==
    \E c \in Callers :
        /\ Settled(c, "getRootNamespace")
        /\ RootHasGroups /\ RootHasImport
        /\ NoneDefines(RootProject.PropertyGroup, "RootNamespace")
        /\ ~NoneDefines(ContentGroups(files[TargetPath]), "RootNamespace")
        /\ reads[c] = <<filePath>>
        /\ result[c] = Undefined

RECURSIVE SplitAll(_, _)
\* the segments of a token sequence, every slash of either kind separating
SplitAll(tokens, current) ==
    IF tokens = <<>> THEN <<current>>
    ELSE IF Head(tokens) \in {"/", "\\"}
         THEN <<current>> \o SplitAll(Tail(tokens), <<>>)
         ELSE SplitAll(Tail(tokens), Append(current, Head(tokens)))

\* the file an Import's Project attribute refers to: the attribute taken
\* relative to the directory of the bound file, all its separators honoured
ImportTarget(project) == NormalizeOnto(dirname(filePath), SplitAll(project, <<>>))

\* the root document has no PropertyGroup and its first Import carries a
\* Project attribute
RootImportsOnly ==
    /\ RootIsProject /\ ~RootHasGroups /\ RootHasImport
    /\ Has(RootProject.Import[1], "$")
    /\ Has(RootProject.Import[1]["$"], "Project")

RootImportProject == RootProject.Import[1]["$"].Project

\* the value a scalar query is to give over the PropertyGroups `groups`
ValueOver(groups, query, outcome) ==
    CASE query = "getRootNamespace" -> FirstMatchIs(groups, "RootNamespace", outcome)
      [] query = "getTargetFramework" -> FirstMatchIs(groups, "TargetFramework", outcome)
      [] query = "isTargetFrameworkHigherThanOrEqualToDotNet6" ->
            outcome = isTargetFrameworkHigherThanOrEqualToDotNet6(getTargetFramework(groups))
      [] query = "useImplicitUsings" ->
            /\ outcome.kind = "boolean"
            /\ outcome.val <=> \E i \in 1..Len(groups) :
                                   /\ FirstDefining(groups, i, "ImplicitUsings")
                                   /\ groups[i].ImplicitUsings[1] = T_enable

\* storage holds a well-formed document at `path`
WellFormedAt(path) == path \in DOMAIN files /\ files[path].k = "xml"

\* C3: over a root document with no PropertyGroup and an Import, each scalar
\* query reads storage exactly twice, the bound path and then the import
\* target, and returns first-match resolution over the imported document.
C3_ImportFallback ==
    \A c \in Callers :
        (pc[c] = "settled" /\ op[c] \in ScalarQueries /\ RootImportsOnly
         /\ WellFormedAt(ImportTarget(RootImportProject))) =>
            /\ reads[c] = <<filePath, ImportTarget(RootImportProject)>>
            /\ ValueOver(ContentGroups(files[ImportTarget(RootImportProject)]), op[c], result[c])

\* C3, for a Project attribute that holds at most one backslash, or on
\* win32: there the path read second is the import target.
C3_ImportFallbackOneBackslash ==
    \A c \in Callers :
        (pc[c] = "settled" /\ op[c] \in ScalarQueries /\ RootImportsOnly
         /\ WellFormedAt(ImportTarget(RootImportProject))
         /\ (platform = "win32" \/ RootImportProject # ImportDeep)) =>
            /\ reads[c] = <<filePath, ImportTarget(RootImportProject)>>
            /\ ValueOver(ContentGroups(files[ImportTarget(RootImportProject)]), op[c], result[c])

\* the load of the root document went through: read and parsed
RootLoads == Root.k = "xml" \/ (Root.k = "text" /\ Root.text = "")

\* C4: a query reads storage at most twice: the bound path once, first, and
\* at most one import target, only after the root document loaded without
\* PropertyGroups; an Import of the imported document is not followed and
\* nothing is read again after a failure.
C4_AtMostTwoReads ==
    \A c \in Callers :
        /\ Len(reads[c]) <= 2
        /\ pc[c] \in {"idle", "readRoot"} => reads[c] = <<>>
        /\ pc[c] = "readImport" => reads[c] = <<filePath>>
        /\ pc[c] = "settled" => Len(reads[c]) >= 1 /\ reads[c][1] = filePath
        /\ Len(reads[c]) = 2 =>
              /\ op[c] \in ScalarQueries
              /\ RootLoads /\ RootImportsOnly
              /\ reads[c][2] # filePath

\* the imported document is import-only itself, and the query ends there
C4_Witness ==
    \E c \in Callers :
        /\ Settled(c, "getTargetFramework")
        /\ Len(reads[c]) = 2
        /\ WellFormedAt(reads[c][2])
        /\ ContentGroups(files[reads[c][2]]) = <<>>
        /\ Has(files[reads[c][2]].tree, "Project")
        /\ Has(files[reads[c][2]].tree.Project, "Import")
        /\ result[c] = Undefined

\* the read or the parse of the bound file fails, or the file is blank
RootFails == Root.k \in {"missing", "text"}

\* C5: when the read or the parse of the bound file fails, getRootNamespace,
\* getTargetFramework and the version predicate return absent and
\* useImplicitUsings returns false; none of them rejects.
C5_FailureIsAbsent ==
    \A c \in Callers :
        (pc[c] = "settled" /\ op[c] \in ScalarQueries) =>
            /\ result[c].kind # "rejected"
            /\ RootFails => result[c] = AbsentValue(op[c])

\* useImplicitUsings over content that is not well-formed
C5_Witness ==
    \E c \in Callers :
        /\ Settled(c, "useImplicitUsings")
        /\ Root = Text("<>")
        /\ logs[c] = 1
        /\ result[c] = Bool(FALSE)

\* C6: getUsingsInclude and getUsingsRemove never reject; when the bound
\* document fails to be read or parsed they return an empty list.
C6_UsingsTotal ==
    \A c \in Callers :
        (pc[c] = "settled" /\ op[c] \in UsingQueries) =>
            /\ result[c].kind = "list"
            /\ RootFails => result[c] = List(<<>>)

\* storage holds at `path` content that reads and parses
LoadsAt(path) ==
    /\ path \in DOMAIN files
    /\ files[path].k = "xml" \/ (files[path].k = "text" /\ files[path].text = "")

\* the PropertyGroups a settled scalar query ended with: those of the last
\* document it read, none when that document did not load
FinalGroups(c) ==
    LET last == reads[c][Len(reads[c])] IN
    IF LoadsAt(last) THEN ContentGroups(files[last]) ELSE <<>>

\* `s` has a digit at i with net, in any letter case, right before it
NetDigitAt(s, i) ==
    /\ i \in 4..Len(s)
    /\ s[i - 3] \in {"n", "N"} /\ s[i - 2] \in {"e", "E"} /\ s[i - 1] \in {"t", "T"}
    /\ s[i] \in DigitChars

NoNumericRun(s) == \A i \in 1..Len(s) : ~NetDigitAt(s, i)

\* C7: the version predicate returns absent exactly when no TargetFramework
\* is resolved; for a resolved TargetFramework, the empty one included, it
\* returns a boolean, false when no numeric run follows net.
C7_AbsentIffUnresolved ==
    \A c \in Callers :
        Settled(c, "isTargetFrameworkHigherThanOrEqualToDotNet6") =>
            /\ result[c] = Undefined <=> NoneDefines(FinalGroups(c), "TargetFramework")
            /\ \A i \in 1..Len(FinalGroups(c)) :
                  FirstDefining(FinalGroups(c), i, "TargetFramework") =>
                      /\ result[c].kind = "boolean"
                      /\ NoNumericRun(FinalGroups(c)[i].TargetFramework[1]) =>
                            result[c] = Bool(FALSE)

\* s[i..j] is digits with single points between them
IsRun(s, i, j) ==
    /\ i <= j /\ j <= Len(s)
    /\ s[i] \in DigitChars /\ s[j] \in DigitChars
    /\ \A k \in i..j : s[k] \in DigitChars \cup {"."}
    /\ \A k \in i..(j - 1) : ~(s[k] = "." /\ s[k + 1] = ".")

\* s[i..j] is the numeric run of the moniker: it starts at the leftmost
\* digit that follows net and cannot be extended
NumericRun(s, i, j) ==
    /\ NetDigitAt(s, i)
    /\ \A k \in 1..(i - 1) : ~NetDigitAt(s, k)
    /\ IsRun(s, i, j)
    /\ \A k \in (j + 1)..Len(s) : ~IsRun(s, i, k)

\* the run is major or major.minor
MajorMinor(s, i, j) == Cardinality({k \in i..j : s[k] = "."}) <= 1

\* the last digit of the major part of the run s[i..j]
MajorEnd(s, i, j) ==
    IF \E k \in i..j : s[k] = "." THEN (CHOOSE k \in i..j : s[k] = ".") - 1 ELSE j

\* the value of a major.minor run is at least 6: its major part has a digit
\* other than 0 before its last, or its last digit is 6 or more
AtLeast6(s, i, j) ==
    \/ \E k \in i..(MajorEnd(s, i, j) - 1) : s[k] # "0"
    \/ s[MajorEnd(s, i, j)] \in {"6", "7", "8", "9"}

\* the TargetFramework a settled query resolved is `s`
ResolvedFramework(c, s) ==
    \E i \in 1..Len(FinalGroups(c)) :
        /\ FirstDefining(FinalGroups(c), i, "TargetFramework")
        /\ FinalGroups(c)[i].TargetFramework[1] = s

ResolvedFrameworks(c) ==
    {FinalGroups(c)[i].TargetFramework[1] :
        i \in {k \in 1..Len(FinalGroups(c)) :
                  FirstDefining(FinalGroups(c), k, "TargetFramework")}}

\* C8: for a resolved moniker with a numeric run major[.minor] right after
\* net, in any letter case, the version predicate is true iff the value of
\* the run is at least 6; net6.0 gives true, net5.0 and netcoreapp1.0 to
\* netcoreapp3.1 give false, and net6.0 is what getTargetFramework returns.
C8_AtLeastNet6 ==
    \A c \in Callers :
        /\ Settled(c, "isTargetFrameworkHigherThanOrEqualToDotNet6") =>
              \A s \in ResolvedFrameworks(c) :
                  /\ \A i \in 1..Len(s), j \in 1..Len(s) :
                        (NumericRun(s, i, j) /\ MajorMinor(s, i, j)) =>
                            result[c] = Bool(AtLeast6(s, i, j))
                  /\ s = T_net60 => result[c] = Bool(TRUE)
                  /\ s \in ValidTargetFramework \ {T_net60} => result[c] = Bool(FALSE)
        /\ Settled(c, "getTargetFramework") =>
              \A s \in ResolvedFrameworks(c) : result[c] = Str(s)

\* NET6.5-w: upper case, and a run that ends before the suffix
C8_Witness ==
    \E c \in Callers :
        /\ Settled(c, "isTargetFrameworkHigherThanOrEqualToDotNet6")
        /\ ResolvedFramework(c, T_NET \o <<"6", ".", "5", "-", "w">>)
        /\ NumericRun(T_NET \o <<"6", ".", "5", "-", "w">>, 4, 6)
        /\ result[c] = Bool(TRUE)

\* C9: useImplicitUsings returns a boolean, never absent and never a fault:
\* true iff the first PropertyGroup defining ImplicitUsings, among those the
\* resolution ended with, has exactly the value enable; another value, no
\* such group and a failed load all give false.
C9_ImplicitUsings ==
    \A c \in Callers :
        Settled(c, "useImplicitUsings") =>
            ValueOver(FinalGroups(c), "useImplicitUsings", result[c])

\* the first group defining ImplicitUsings says Enable, a later one enable
C9_Witness ==
    \E c \in Callers :
        /\ Settled(c, "useImplicitUsings")
        /\ Len(FinalGroups(c)) = 2
        /\ FirstDefining(FinalGroups(c), 1, "ImplicitUsings")
        /\ FinalGroups(c)[1].ImplicitUsings[1] = T_Enable
        /\ Has(FinalGroups(c)[2], "ImplicitUsings")
        /\ FinalGroups(c)[2].ImplicitUsings[1] = T_enable
        /\ result[c] = Bool(FALSE)

\* the ItemGroup children of the root document, <<>> when it has none
RootItemGroups ==
    IF RootIsProject /\ Has(RootProject, "ItemGroup") THEN RootProject.ItemGroup ELSE <<>>

\* the places <<group, element>> of the Using elements carrying `name`
Carriers(name) ==
    UNION { { <<g, u>> : u \in {k \in 1..Len(RootItemGroups[g].Using) :
                                   /\ Has(RootItemGroups[g].Using[k], "$")
                                   /\ Has(RootItemGroups[g].Using[k]["$"], name)} } :
            g \in {k \in 1..Len(RootItemGroups) : Has(RootItemGroups[k], "Using")} }

\* document order of two places
Before(p, q) == p[1] < q[1] \/ (p[1] = q[1] /\ p[2] < q[2])

\* `list` holds the `name` attributes of the carriers, in document order
InDocumentOrder(list, name) ==
    /\ Len(list) = Cardinality(Carriers(name))
    /\ \A p \in Carriers(name) :
          list[1 + Cardinality({q \in Carriers(name) : Before(q, p)})]
              = RootItemGroups[p[1]].Using[p[2]]["$"][name]

\* C10: over a root document that parses, getUsingsInclude returns the
\* Include attributes of the Using elements that carry one, an empty value
\* included, over all ItemGroups in document order, and getUsingsRemove the
\* Remove attributes; without ItemGroups or Using elements the list is empty.
C10_UsingsInOrder ==
    \A c \in Callers :
        RootLoads =>
            /\ Settled(c, "getUsingsInclude") =>
                  result[c].kind = "list" /\ InDocumentOrder(result[c].val, "Include")
            /\ Settled(c, "getUsingsRemove") =>
                  result[c].kind = "list" /\ InDocumentOrder(result[c].val, "Remove")

\* three ItemGroups with one Using Include="" each: three entries
C10_Witness ==
    \E c \in Callers :
        /\ Settled(c, "getUsingsInclude")
        /\ Len(RootItemGroups) = 3
        /\ \A g \in 1..3 : RootItemGroups[g] = [Using |-> << "$" :> [Include |-> T_empty] >>]
        /\ result[c] = List(<<T_empty, T_empty, T_empty>>)

\* the root document has no Using element carrying Include or Remove
RootWithoutUsings == Carriers("Include") = {} /\ Carriers("Remove") = {}

\* the ItemGroup children of a stored document, <<>> when it has none
ContentItemGroups(content) ==
    IF content.k = "xml" /\ Has(content.tree, "Project")
       /\ Has(content.tree.Project, "ItemGroup")
    THEN content.tree.Project.ItemGroup
    ELSE <<>>

\* C11: getUsingsInclude and getUsingsRemove never follow an Import: a call
\* reads storage exactly once, the bound path, and over a root document with
\* an Import and no Using elements it returns the empty list, whatever Using
\* elements the import target holds.
C11_UsingsIgnoreImport ==
    \A c \in Callers :
        op[c] \in UsingQueries =>
            /\ pc[c] # "readImport"
            /\ pc[c] = "readRoot" => reads[c] = <<>>
            /\ pc[c] = "settled" =>
                  /\ reads[c] = <<filePath>>
                  /\ (RootHasImport /\ RootWithoutUsings) => result[c] = List(<<>>)

\* an import-only root whose import target holds a Using with an Include
C11_Witness ==
    \E c \in Callers :
        /\ Settled(c, "getUsingsInclude")
        /\ RootImportsOnly /\ RootWithoutUsings
        /\ WellFormedAt(ImportTarget(RootImportProject))
        /\ \E g \in 1..Len(ContentItemGroups(files[ImportTarget(RootImportProject)])) :
              LET group == ContentItemGroups(files[ImportTarget(RootImportProject)])[g] IN
              /\ Has(group, "Using")
              /\ \E u \in 1..Len(group.Using) :
                    Has(group.Using[u], "$") /\ Has(group.Using[u]["$"], "Include")
        /\ reads[c] = <<filePath>>
        /\ result[c] = List(<<>>)

\* the directory createFromPath starts its search in
StartDirectory == dirname(csprojReader.from)

\* directory d is `dir` or one of its ancestors
IsAncestorOrSelf(d, dir) == Len(d) <= Len(dir) /\ SubSeq(dir, 1, Len(d)) = d

\* the existing files named *.csproj in the start directory or an ancestor
ProjectFilesAbove ==
    {p \in DOMAIN files :
        /\ files[p].k # "missing"
        /\ p[Len(p)] \in ProjectNames
        /\ IsAncestorOrSelf(dirname(p), StartDirectory)}

\* C12: createFromPath returns undefined when no file named *.csproj exists
\* in the start directory or any of its ancestors, and otherwise a reader
\* whose getFilePath() is such a file in the nearest directory that has one.
C12_NearestAncestor ==
    csprojReader.from # NoPath =>
        /\ csprojReader.t \in {"undefined", "reader"}
        /\ csprojReader.t = "undefined" <=> ProjectFilesAbove = {}
        /\ csprojReader.t = "reader" =>
              /\ getFilePath \in ProjectFilesAbove
              /\ \A p \in ProjectFilesAbove : Len(p) <= Len(getFilePath)

\* from /w/p/s/New.cs: nothing in /w/p/s and /w/p, project files in /w, in
\* the root and off the way in /w/q, and a file of another kind in /w/p/s
C12_Witness ==
    /\ csprojReader = FoundFrom(<< <<"w">>, <<"p">>, <<"s">>, <<"New.cs">> >>)
    /\ Exists(<< <<"w">>, <<"p">>, <<"s">>, <<"a.sln">> >>)
    /\ Exists(<< <<"w">>, <<"q">>, <<"a.csproj">> >>)
    /\ Exists(<< <<"a.csproj">> >>)
    /\ ~Exists(<< <<"w">>, <<"p">>, <<"s">>, <<"a.csproj">> >>)
    /\ ~Exists(<< <<"w">>, <<"p">>, <<"a.csproj">> >>)
    /\ ~Exists(<< <<"w">>, <<"p">>, <<"b.csproj">> >>)
    /\ getFilePath = << <<"w">>, <<"a.csproj">> >>

\* C13: the path a reader is bound to never changes: after any sequence of
\* queries getFilePath() is the path given at construction, and every query,
\* the earlier ones and the one under way, reads that path first.
C13_BoundPathImmutable ==
    /\ getFilePath = BoundPath
    /\ \A c \in Callers : reads[c] # <<>> => reads[c][1] = BoundPath
    /\ served.t = "call" => served.reads # <<>> /\ served.reads[1] = BoundPath

\* a query that followed the Import, after another that followed it
C13_Witness ==
    \E c \in Callers :
        /\ served.t = "call" /\ Len(served.reads) = 2
        /\ pc[c] = "settled" /\ Len(reads[c]) = 2
        /\ reads[c][2] # BoundPath
        /\ getFilePath = BoundPath

\* every document a settled query read is in storage, read and parsed
AllLoad(c) == \A i \in 1..Len(reads[c]) : LoadsAt(reads[c][i])

\* the result of a settled query is the one that the contents of storage,
\* as they are now, give: for a scalar query the value over the groups of
\* the document it ended with, or absent when a load failed; for a usings
\* query the attributes of the root document, or a rejection
ReflectsStorage(c) ==
    IF op[c] \in UsingQueries
    THEN IF RootLoads
         THEN /\ result[c].kind = "list"
              /\ InDocumentOrder(result[c].val,
                                 IF op[c] = "getUsingsInclude" THEN "Include" ELSE "Remove")
         ELSE result[c] = Rejected
    ELSE IF AllLoad(c)
         THEN ValueOver(FinalGroups(c), op[c], result[c])
         ELSE result[c] = AbsentValue(op[c])

\* C17: nothing is kept from one call to the next: the result of a call is
\* the one the file contents at the time of the call give, whatever earlier
\* calls returned, and a call of the same query as the call before, over
\* contents unchanged since, returns the same result.
C17_NoCache ==
    \A c \in Callers :
        pc[c] = "settled" =>
            /\ reads[c][1] = filePath
            /\ ReflectsStorage(c)
            /\ (served.t = "call" /\ served.query = op[c] /\ served.files = files) =>
                   result[c] = served.outcome /\ reads[c] = served.reads

\* getRootNamespace gave A, the root document changed, and it gives B
C17_Witness ==
    \E c \in Callers :
        /\ Settled(c, "getRootNamespace")
        /\ served.t = "call" /\ served.query = "getRootNamespace"
        /\ served.outcome = Str(T_A)
        /\ served.files # files
        /\ result[c] = Str(T_B)

\* storage holds blank content at `path`
BlankAt(path) == path \in DOMAIN files /\ files[path] = Text("")

\* the read or the parse of a document that a settled query read failed:
\* the file is missing or its content is not well-formed
LoadFailed(c) == \E i \in 1..Len(reads[c]) : ~WellFormedAt(reads[c][i])

\* the root document has no PropertyGroup and an Import without a Project
\* attribute
RootImportUnusable == RootIsProject /\ ~RootHasGroups /\ RootHasImport /\ ~RootImportsOnly

\* C14: a scalar query logs one diagnostic when the read or the parse of a
\* document it reads fails, blank content included, and none when the
\* documents are well-formed and merely lack the property or the group.
C14_DiagnosticsIffLoadFails ==
    \A c \in Callers :
        (pc[c] = "settled" /\ op[c] \in ScalarQueries) =>
            logs[c] = IF LoadFailed(c) THEN 1 ELSE 0

\* C14, apart from blank content and from an Import without a Project
\* attribute: there the diagnostics are as the claim says.
C14_DiagnosticsElsewhere ==
    \A c \in Callers :
        (pc[c] = "settled" /\ op[c] \in ScalarQueries
         /\ ~RootImportUnusable
         /\ \A i \in 1..Len(reads[c]) : ~BlankAt(reads[c][i])) =>
            logs[c] = IF LoadFailed(c) THEN 1 ELSE 0

\* C15: over a root document with no PropertyGroup and an Import whose
\* target is missing or not well-formed, blank included, a scalar query
\* returns absent or false and logs exactly one diagnostic, as it does over
\* a root document that is not well-formed.
C15_ImportFailureAsMalformed ==
    \A c \in Callers :
        (pc[c] = "settled" /\ op[c] \in ScalarQueries /\ RootImportsOnly
         /\ ~WellFormedAt(ImportTarget(RootImportProject))) =>
            /\ result[c] = AbsentValue(op[c])
            /\ logs[c] = 1

\* C15, for an import target that is missing or holds text other than
\* blank: absent or false, and one diagnostic.
C15_ImportFailureNotBlank ==
    \A c \in Callers :
        (pc[c] = "settled" /\ op[c] \in ScalarQueries /\ RootImportsOnly
         /\ ~WellFormedAt(ImportTarget(RootImportProject))
         /\ ~BlankAt(ImportTarget(RootImportProject))) =>
            /\ result[c] = AbsentValue(op[c])
            /\ logs[c] = 1

\* C19: for every resolved TargetFramework other than the empty one, the
\* version predicate returns what the reference computation of the tests
\* gives: false without a match, else parseFloat(match) >= 6; also for a
\* run with more than one point and for a run without a point.
C19_SameAsReference ==
    \A c \in Callers :
        Settled(c, "isTargetFrameworkHigherThanOrEqualToDotNet6") =>
            \A s \in ResolvedFrameworks(c) \ {T_empty} : result[c] = Bool(framework(s))

\* C19, for monikers whose numeric run has at most one point: the
\* predicate and the reference agree.
C19_SameAsReferenceOnePoint ==
    \A c \in Callers :
        Settled(c, "isTargetFrameworkHigherThanOrEqualToDotNet6") =>
            \A s \in ResolvedFrameworks(c) \ {T_empty} :
                (\A i \in 1..Len(s), j \in 1..Len(s) : NumericRun(s, i, j) => MajorMinor(s, i, j))
                    => result[c] = Bool(framework(s))

\* C20: when the import fallback is taken, the path read second is the
\* Project attribute of the Import, all its separators of either kind taken
\* for the platform separator, resolved against the directory of the bound
\* file.
C20_ImportPathAllSeparators ==
    \A c \in Callers :
        Len(reads[c]) = 2 =>
            /\ reads[c][1] = filePath
            /\ RootImportsOnly
            /\ reads[c][2] = ImportTarget(RootImportProject)

\* C20, on win32 or for a Project attribute with no second backslash: the
\* path read second is that path.
C20_ImportPathOneBackslash ==
    \A c \in Callers :
        (Len(reads[c]) = 2 /\ (platform = "win32" \/ RootImportProject # ImportDeep)) =>
            /\ reads[c][1] = filePath
            /\ RootImportsOnly
            /\ reads[c][2] = ImportTarget(RootImportProject)

\* what a query settles with, reads and logs when it runs from its start to
\* its end with no step of another query in between
Alone(query) ==
    LET xml == getXmlContent(NoPath) IN
    IF query \in UsingQueries
    THEN [outcome |-> UsingsSettled(query, xml), reads |-> <<filePath>>, logs |-> 0]
    ELSE IF ~xml.ok
    THEN [outcome |-> Caught(query), reads |-> <<filePath>>, logs |-> 1]
    ELSE LET groups == getPropertyGroups(xml.value) IN
         CASE groups.t = "return" ->
                 [outcome |-> Resolved(query, groups.groups), reads |-> <<filePath>>, logs |-> 0]
           [] groups.t = "throw" ->
                 [outcome |-> Caught(query), reads |-> <<filePath>>, logs |-> 1]
           [] groups.t = "import" ->
                 LET importXmlContent == getXmlContent(groups.path) IN
                 IF importXmlContent.ok
                 THEN [outcome |-> Resolved(query, ProjectPropertyGroup(importXmlContent.value)),
                       reads |-> <<filePath, groups.path>>, logs |-> 0]
                 ELSE [outcome |-> Caught(query), reads |-> <<filePath, groups.path>>, logs |-> 1]

ProjectUnavailable ==
    \/ csprojReader.t = "undefined"
    \/ csprojReader.t = "reader" /\ ~WellFormedAt(filePath)

RootBare == Root.k = "xml" /\ ~RootHasGroups /\ ~RootHasImport

\* C21: over a parsable root document with no PropertyGroup and no usable
\* Import (no Import at all, or an Import without a Project attribute) every
\* scalar query returns absent or false after exactly one read, of the bound
\* path, and logs no diagnostic.
C21_MissingPropertyUnlogged ==
    \A c \in Callers :
        (pc[c] = "settled" /\ op[c] \in ScalarQueries
         /\ (RootBare \/ RootImportUnusable)) =>
            /\ result[c] = AbsentValue(op[c])
            /\ reads[c] = <<filePath>>
            /\ logs[c] = 0

\* C21, over root documents with no Import at all: absent or false, one
\* read, no diagnostic.
C21_MissingPropertyNoImport ==
    \A c \in Callers :
        (pc[c] = "settled" /\ op[c] \in ScalarQueries /\ RootBare) =>
            /\ result[c] = AbsentValue(op[c])
            /\ reads[c] = <<filePath>>
            /\ logs[c] = 0

\* C21, over an Import without a Project attribute: absent or false after
\* one read, and one diagnostic logged.
C21_UnusableImportLogged ==
    \A c \in Callers :
        (pc[c] = "settled" /\ op[c] \in ScalarQueries /\ RootImportUnusable) =>
            /\ result[c] = AbsentValue(op[c])
            /\ reads[c] = <<filePath>>
            /\ logs[c] = 1

\* a well-formed document that lacks the elements of interest: no Project
\* node, or a Project node under which no PropertyGroup defines a property,
\* no Import carries a Project attribute and no Using carries an Include or
\* a Remove attribute
Lacking(content) ==
    /\ content.k = "xml"
    /\ Has(content.tree, "Project") =>
          LET project == content.tree.Project IN
          /\ Has(project, "PropertyGroup") =>
                \A i \in 1..Len(project.PropertyGroup) :
                    DOMAIN project.PropertyGroup[i] \cap PropertyNames = {}
          /\ Has(project, "Import") =>
                \A i \in 1..Len(project.Import) :
                    ~(Has(project.Import[i], "$") /\ Has(project.Import[i]["$"], "Project"))
          /\ Has(project, "ItemGroup") =>
                \A i \in 1..Len(project.ItemGroup) :
                    Has(project.ItemGroup[i], "Using") =>
                        \A j \in 1..Len(project.ItemGroup[i].Using) :
                            LET using == project.ItemGroup[i].Using[j] IN
                            Has(using, "$") =>
                                DOMAIN using["$"] \cap {"Include", "Remove"} = {}

\* what a query gives when there is nothing to find: absent, false, or the
\* empty list
EmptyValue(query) == IF query \in UsingQueries THEN List(<<>>) ELSE AbsentValue(query)

\* C22: over a well-formed root document that lacks the elements of
\* interest, getRootNamespace, getTargetFramework and the version predicate
\* return absent, useImplicitUsings returns false, getUsingsInclude and
\* getUsingsRemove return empty lists, and no query raises or logs.
C22_TotalOverLacking ==
    \A c \in Callers :
        (pc[c] = "settled" /\ Lacking(Root)) =>
            /\ result[c] = EmptyValue(op[c])
            /\ logs[c] = 0

\* C22, over the documents that have no Import element besides: no Project
\* node, an empty Project node, groups without children, Using elements
\* without attributes.
C22_TotalOverLackingNoImport ==
    \A c \in Callers :
        (pc[c] = "settled" /\ Lacking(Root) /\ ~RootHasImport) =>
            /\ result[c] = EmptyValue(op[c])
            /\ logs[c] = 0

IsPrefix(s, t) == Len(s) <= Len(t) /\ SubSeq(t, 1, Len(s)) = s

\* the calls of the project block of startExecutor, in their order
QueryOrder(usingsImplicit) ==
    <<"isTargetFrameworkHigherThanOrEqualToDotNet6", "getTargetFramework",
      "GlobalUsingFinder.find">>
    \o (IF usingsImplicit THEN <<"useImplicitUsings">> ELSE <<>>)
    \o <<"getUsingsInclude", "getUsingsRemove">>

\* createFromPath gave a reader, and over its project file the version
\* predicate returns exactly true
PredicateTrue ==
    /\ csprojReader.t = "reader"
    /\ Alone("isTargetFrameworkHigherThanOrEqualToDotNet6").outcome = Bool(TRUE)

\* C23: startExecutor calls the reader in a fixed order and under a guard:
\* nothing before createFromPath has given a reader, then the version
\* predicate; getTargetFramework, GlobalUsingFinder.find, useImplicitUsings,
\* getUsingsInclude and getUsingsRemove in that order and only when the
\* predicate returned exactly true; none of them when it returned false or
\* absent; and useImplicitUsings is false whenever the setting
\* usings.implicit is false.
C23_QueryOrderAndGuard ==
    /\ exec.calls # <<>> => csprojReader.t = "reader"
    /\ IsPrefix(exec.calls, QueryOrder(exec.usingsImplicit))
    /\ Len(exec.calls) > 1 => PredicateTrue
    /\ exec.pc \in {"create", "done", "failed"} =>
          exec.calls = IF csprojReader.t # "reader" THEN <<>>
                       ELSE IF PredicateTrue THEN QueryOrder(exec.usingsImplicit)
                       ELSE <<"isTargetFrameworkHigherThanOrEqualToDotNet6">>
    /\ ~exec.usingsImplicit => ~exec.useImplicitUsings

\* the setting usings.implicit is off over a project that enables implicit
\* usings: all calls but useImplicitUsings were made, in order, before the
\* creation
C23_Witness ==
    /\ exec.pc = "create"
    /\ ~exec.usingsImplicit
    /\ PredicateTrue
    /\ Alone("useImplicitUsings").outcome = Bool(TRUE)
    /\ exec.calls = <<"isTargetFrameworkHigherThanOrEqualToDotNet6", "getTargetFramework",
                      "GlobalUsingFinder.find", "getUsingsInclude", "getUsingsRemove">>
    /\ ~exec.useImplicitUsings

\* the place of the first occurrence of `x` in `list`
FirstAt(list, x) ==
    CHOOSE i \in 1..Len(list) : list[i] = x /\ \A j \in 1..(i - 1) : list[j] # x

Occurs(list, x) == \E i \in 1..Len(list) : list[i] = x

\* `merged` is `discovered` followed by `include`, each entry once at the
\* place of its first occurrence, without the entries of `remove`
MergedUsings(merged, discovered, include, remove) ==
    LET all == discovered \o include IN
    /\ \A i, j \in 1..Len(merged) : i # j => merged[i] # merged[j]
    /\ \A i \in 1..Len(merged) : ~Occurs(remove, merged[i]) /\ Occurs(all, merged[i])
    /\ \A i \in 1..Len(all) : ~Occurs(remove, all[i]) => Occurs(merged, all[i])
    /\ \A i, j \in 1..Len(merged) :
          i < j => FirstAt(all, merged[i]) < FirstAt(all, merged[j])

\* startExecutor resumes after getUsingsRemove, the last await of the
\* project block, and goes on to the creation
BlockEnds == exec.pc = "remove" /\ exec.awaiting /\ exec'.pc = "create"

\* C24: the global usings that startExecutor passes to the creation hold no
\* entry twice and no entry of getUsingsRemove's list; they hold every entry
\* of the discovered global usings and of getUsingsInclude's list that is
\* not in the remove list, discovered entries before include entries, each
\* at the place of its first occurrence.  Before the end of the project
\* block the list holds the discovered global usings; from then on it stays
\* as it is, and it is empty when the block is skipped.
C24_GlobalUsingsMerged ==
    [][/\ BlockEnds =>
             MergedUsings(exec'.globalUsings, exec.globalUsings,
                          Alone("getUsingsInclude").outcome.val,
                          Alone("getUsingsRemove").outcome.val)
       /\ (exec'.pc = "create" /\ exec.pc # "create" /\ ~BlockEnds) =>
             exec'.globalUsings = <<>>
       /\ exec.pc \in {"create", "done", "failed"} =>
             exec'.globalUsings = exec.globalUsings]_vars

\* discovered A, C, A; included A, B, A; removed B: the creation gets A, C
C24_Witness ==
    /\ exec.pc = "create"
    /\ Len(exec.calls) = 6
    /\ exec.namespaceInclude = <<T_A, T_B, T_A>>
    /\ Alone("getUsingsRemove").outcome.val = <<T_B>>
    /\ exec.globalUsings = <<T_A, T_C>>

\* startExecutor has returned before createFromPath: nothing created, the
\* reader neither looked for nor asked
NothingDone ==
    /\ exec.createdFiles = <<>>
    /\ exec.calls = <<>>
    /\ csprojReader = NotCreated
    /\ \A c \in Callers : pc[c] = "idle" /\ reads[c] = <<>>

\* the entered name without its last token when that is '.cs'
EnteredName ==
    IF exec.name # <<>> /\ exec.name[Len(exec.name)] = ".cs"
    THEN [i \in 1..(Len(exec.name) - 1) |-> exec.name[i]]
    ELSE exec.name

\* the file that startExecutor is to create from template i of the mapping
FileOf(i) ==
    [template |-> exec.mapping.templates[i], ok |-> TRUE,
     pathWithoutExtension |-> Append(exec.incomingPath, EnteredName)]

\* the created files are those of the templates in `kept`, in their order
CreatedFrom(kept) ==
    /\ Len(exec.createdFiles) = Cardinality(kept)
    /\ \A i \in kept : Occurs(exec.createdFiles, FileOf(i))
    /\ \A j \in 1..Len(exec.createdFiles) :
          \E i \in kept : exec.createdFiles[j] = FileOf(i)

\* startExecutor is over
ExecutorOver == exec.pc \in {"returned", "raised", "done", "failed"}

\* C25: on an early exit (no extension, no workspace folder, no name
\* entered, createFromTemplate without templates or without a pick)
\* startExecutor has created no file and asked no reader; on every other
\* path it has created one file per template of the mapping, named by the
\* entered name with one trailing '.cs' cut.
C25_EarlyExitOrOneFilePerTemplate ==
    /\ exec.pc = "returned" => NothingDone
    /\ (ExecutorOver /\ exec.pc # "returned") =>
          /\ exec.name # <<>>
          /\ CreatedFrom(1..Len(exec.mapping.templates))

\* C25, with the creation allowed to fail: on an early exit nothing is
\* created and no reader asked; on every other path one creation per
\* template of the mapping is made, under the entered name with one
\* trailing '.cs' cut, and the files of the creations that went well exist:
\* all of them unless startExecutor ends on the error of a creation.
C25_EarlyExitOrOneCreationPerTemplate ==
    /\ exec.pc = "returned" => NothingDone
    /\ exec.pc \notin {"begin", "input", "pick", "returned"} => exec.name # <<>>
    /\ exec.pc \in {"locate", "create"} \cup QueryStages \cup {"globals"} =>
          exec.createdFiles = <<>>
    /\ exec.pc = "done" => CreatedFrom(1..Len(exec.mapping.templates))
    /\ exec.pc = "failed" =>
          \E kept \in SUBSET (1..Len(exec.mapping.templates)) :
              /\ kept # 1..Len(exec.mapping.templates)
              /\ CreatedFrom(kept)
    /\ ExecutorOver => exec.pc \in {"returned", "done", "failed"}

\* createController with the name New.cs.cs entered: two files New.cs
C25_Witness ==
    /\ exec.pc = "done"
    /\ exec.mapping.command = "createController"
    /\ exec.name = <<"New", ".cs", ".cs">>
    /\ Len(exec.createdFiles) = 2
    /\ \A j \in 1..2 : exec.createdFiles[j].pathWithoutExtension
                          = Append(exec.incomingPath, <<"New", ".cs">>)


==============================================================================
